---- MODULE Spec2Model ----
(***************************************************************************)
(* Model of backend/file_classifier.py: the single-file analyzer           *)
(* (analyze_single_file and its helpers) as operators, and the batch       *)
(* orchestrator (classify_files_batch over a ProcessPoolExecutor) as a     *)
(* state machine.                                                          *)
(*                                                                         *)
(* Representation.                                                         *)
(*  - A path is a tuple of one-character strings.                          *)
(*  - File bytes and decoded text are run-length encoded: a sequence of    *)
(*    runs [k |-> kind, n |-> count].  Kind "ws" is whitespace, "bad" is   *)
(*    an undecodable byte, "x" is ordinary prose, a kind named after a PII *)
(*    category is a substring that category's pattern matches, and a kind  *)
(*    spelling a sentinel is that literal text.                            *)
(*  - A confidence is held in hundredths of a percent (9750 is 0.9750);    *)
(*    an attribute the classifier's output may lack is <<>> or <<value>>.  *)
(*  - flag_reasons, a list whose order the code leaves to set(), is a set. *)
(***************************************************************************)
EXTENDS Integers, Sequences, FiniteSets, TLC

VARIABLES file_paths, pc, futures, yielded, results, broken,
          a_args, a_pc, a_out

vars == <<file_paths, pc, futures, yielded, results, broken, a_args, a_pc, a_out>>

batch_vars == <<file_paths, pc, futures, yielded, results, broken>>

call_vars == <<a_args, a_pc, a_out>>

----------------------------------------------------------------------------
(* Bounds of the model.                                                    *)

MaxFiles == 3

MaxWorkers == 2

(* Program constants.                                                      *)

MaxBytes == 20000

PreviewMax == 5000

DefaultConfidence == 9900

None == "None"

----------------------------------------------------------------------------
(* Run-length encoded text.                                                *)

Run(k, n) == [k |-> k, n |-> n]

Min(a, b) == IF a <= b THEN a ELSE b

Least(S) == CHOOSE i \in S : \A j \in S : i <= j

Greatest(S) == CHOOSE i \in S : \A j \in S : j <= i

(* The number of characters in the first i runs of t.                      *)
RECURSIVE LenUpTo(_, _)
LenUpTo(t, i) == IF i <= 0 THEN 0 ELSE t[i].n + LenUpTo(t, i - 1)

TextLen(t) == LenUpTo(t, Len(t))

(* t[:n]                                                                   *)
Take(t, n) ==
    LET kept == {i \in 1..Len(t) : LenUpTo(t, i - 1) < n}
    IN  [i \in 1..Cardinality(kept) |-> Run(t[i].k, Min(t[i].n, n - LenUpTo(t, i - 1)))]

(* Adjacent runs of one kind are one run.                                  *)
Merge(t) ==
    LET starts == {i \in 1..Len(t) : i = 1 \/ t[i - 1].k # t[i].k}
        m == Cardinality(starts)
        nth(j) == CHOOSE i \in starts : Cardinality({x \in starts : x <= i}) = j
        last(j) == IF j = m THEN Len(t) ELSE nth(j + 1) - 1
    IN  [j \in 1..m |-> Run(t[nth(j)].k, LenUpTo(t, last(j)) - LenUpTo(t, nth(j) - 1))]

(* bytes.decode(enc, errors="ignore")                                      *)
Decode(raw) == Merge(SelectSeq(raw, LAMBDA r : r.k # "bad"))

(* str.strip()                                                             *)
Strip(t) ==
    LET solid == {i \in 1..Len(t) : t[i].k # "ws"}
    IN  IF solid = {} THEN <<>> ELSE SubSeq(t, Least(solid), Greatest(solid))

Kinds(t) == {t[i].k : i \in 1..Len(t)}

UnreadableText == <<Run("[Unreadable or binary data]", 27)>>

SkippedText == <<Run("[Skipped: non-text or non-pdf file]", 35)>>

ErrorText == <<Run("[Error analyzing file]", 22)>>

----------------------------------------------------------------------------
(* Paths.                                                                  *)

(* p.rfind(c), counting from 1, 0 when absent.                             *)
LastIndex(p, c) ==
    LET at == {i \in 1..Len(p) : p[i] = c}
    IN  IF at = {} THEN 0 ELSE Greatest(at)

Basename(p) == SubSeq(p, LastIndex(p, "/") + 1, Len(p))

SplitExt(p) ==
    LET sepIndex == LastIndex(p, "/")
        dotIndex == LastIndex(p, ".")
    IN  IF dotIndex > sepIndex
           /\ \E i \in (sepIndex + 1)..(dotIndex - 1) : p[i] # "."
        THEN SubSeq(p, dotIndex, Len(p))
        ELSE <<>>

LowerChar(c) ==
    CASE c = "T" -> "t"
      [] c = "X" -> "x"
      [] c = "P" -> "p"
      [] c = "D" -> "d"
      [] c = "F" -> "f"
      [] OTHER -> c

Lower(s) == [i \in 1..Len(s) |-> LowerChar(s[i])]

(* s.lstrip(".")                                                           *)
LStripDots(s) ==
    LET solid == {i \in 1..Len(s) : s[i] # "."}
    IN  IF solid = {} THEN <<>> ELSE SubSeq(s, Least(solid), Len(s))

DotTxt == <<".", "t", "x", "t">>

DotPdf == <<".", "p", "d", "f">>

DotPng == <<".", "p", "n", "g">>

GuessType(p) ==
    LET e == Lower(SplitExt(p))
    IN  CASE e = DotTxt -> "text/plain"
          [] e = DotPdf -> "application/pdf"
          [] e = DotPng -> "image/png"
          [] OTHER -> None

----------------------------------------------------------------------------
(* The external collaborators' answers, as data.                           *)
(*  magika: what Magika().identify_path(path).output gives, or a raise.    *)
(*  file:   what the filesystem holds at the path: perm "ok" (readable),   *)
(*          "noread" (open fails, stat works), "missing" (both fail);      *)
(*          bytes; and chardet's answer for the file's prefix.             *)

MagikaError == "magika: cannot identify"

OpenError == "[Errno 13] Permission denied"

StatError == "[Errno 2] No such file or directory"

BrokenPoolError == "A process in the process pool was terminated abruptly while the future was running or pending."

ExceptionMessages == {MagikaError, OpenError, StatError, BrokenPoolError}

Falsy(v) == v \in {None, ""}

Or(a, b) == IF Falsy(a) THEN b ELSE a

PII_PATTERNS ==
    {"ssn_us", "credit_card", "ip_v4", "email", "phone", "dob", "routing_account",
     "password_label", "spanish_cc_label", "spanish_ssn_label", "student_id"}

personal_info_patterns == {"person_name", "address", "bank_account"}

DisplayName(code) == IF code = "es" THEN "Spanish" ELSE "English"

DetectLangs(text) ==
    IF text = <<>> THEN [raises |-> TRUE, langs |-> <<>>]
    ELSE IF Kinds(text) \subseteq {"ws"} THEN [raises |-> FALSE, langs |-> <<>>]
    ELSE IF "spanish_cc_label" \in Kinds(text)
         THEN [raises |-> FALSE, langs |-> <<"es", "en">>]
         ELSE [raises |-> FALSE, langs |-> <<"en">>]

detect_language(text) ==
    LET d == DetectLangs(text)
    IN  IF d.raises THEN "Unknown"
        ELSE IF d.langs = <<>> THEN "Unknown"
        ELSE LET code == d.langs[1]
             IN  DisplayName(code) \o " (" \o code \o ")"

(* Faulty variant: a failed read gives an empty text in the default       *)
(* encoding.                                                               *)
safe_read_EmptyOnError(file, max_bytes) ==
    IF file.perm # "ok"
    THEN [text |-> <<>>, enc |-> "utf-8"]
    ELSE [text |-> Decode(Take(file.bytes, max_bytes)), enc |-> Or(file.chardet, "utf-8")]

safe_read(file, max_bytes) ==
    IF file.perm # "ok"
    THEN [text |-> UnreadableText, enc |-> "Unknown"]
    ELSE LET raw == Take(file.bytes, max_bytes)
         IN  [text |-> Decode(raw), enc |-> Or(file.chardet, "utf-8")]

find_pii(preview_text) == Kinds(preview_text) \cap PII_PATTERNS

TwoDigits(n) == IF n < 10 THEN "0" \o ToString(n) ELSE ToString(n)

FormatConfidence(c) == ToString(c \div 100) \o "." \o TwoDigits(c % 100) \o "%"

FormatSize(n) == ToString(n) \o " bytes"

UnknownType == <<"u", "n", "k", "n", "o", "w", "n">>

----------------------------------------------------------------------------
(* analyze_single_file.  The value is the call's outcome: kind "return"    *)
(* with the record, or kind "raise" with the exception's text; ops lists   *)
(* the calls on the file made on the way, in order.                        *)

ClassifierFailureRecord(file_path, e, timestamp) ==
    [file_name    |-> Basename(file_path),
     mime_type    |-> "error",
     ai_category  |-> "Processing Failed",
     confidence   |-> "0%",
     encoding     |-> "N/A",
     language     |-> "Unknown",
     flagged      |-> FALSE,
     flag_reasons |-> {"Magika error: " \o e},
     preview      |-> ErrorText,
     uploaded     |-> timestamp]

(* Faulty variant: the extension is not consulted.                         *)
TextEligible_MimeOnly(mime, ext) == mime \in {"application/pdf", "text/plain"}

(* Faulty variant: every classified file is read and scanned.              *)
TextEligible_Always(mime, ext) == TRUE

TextEligible(mime, ext) ==
    mime \in {"application/pdf", "text/plain"} \/ ext \in {DotPdf, DotTxt}

(* Faulty variant: the preview is trimmed but not cut.                     *)
Truncate_NoSlice(preview) == Strip(preview)

Truncate(preview) == Strip(Take(preview, PreviewMax))

ResolveMime(file_path, magika) ==
    Or(Or(magika.mime_type, GuessType(file_path)), "application/octet-stream")

(* Faulty variant: the failure record names the whole path.                *)
WorkerFailureRecord_FullPath(path, e, timestamp) ==
    [file_name    |-> path,
     mime_type    |-> "error",
     ai_category  |-> "Processing Failed",
     confidence   |-> "0%",
     encoding     |-> "N/A",
     language     |-> "Unknown",
     flagged      |-> FALSE,
     flag_reasons |-> {"Worker error: " \o e},
     preview      |-> ErrorText,
     uploaded     |-> timestamp]

WorkerFailureRecord(path, e, timestamp) ==
    [file_name    |-> Basename(path),
     mime_type    |-> "error",
     ai_category  |-> "Processing Failed",
     confidence   |-> "0%",
     encoding     |-> "N/A",
     language     |-> "Unknown",
     flagged      |-> FALSE,
     flag_reasons |-> {"Worker error: " \o e},
     preview      |-> ErrorText,
     uploaded     |-> timestamp]

(* Lines 102-144: the rest of analyze_single_file once the classifier has  *)
(* answered.                                                               *)
AnalyzeClassified(file_path, mime, category, confidence, file, timestamp) ==
    LET ext == Lower(SplitExt(file_path))
        eligible == TextEligible(mime, ext)
        read == safe_read(file, MaxBytes)
        preview == IF eligible THEN read.text ELSE SkippedText
        encoding == IF eligible THEN read.enc ELSE "N/A"
        language == IF eligible THEN detect_language(preview) ELSE "N/A"
        pii_matches == IF eligible
                       THEN find_pii(preview) \cup (Kinds(preview) \cap personal_info_patterns)
                       ELSE {}
        flagged == pii_matches # {}
        flag_reasons == pii_matches
        ops == <<"identify_path">>
               \o (IF eligible THEN <<"safe_read", "detect_language", "find_pii">> ELSE <<>>)
               \o <<"getsize">>
    IN  IF file.perm = "missing"
        THEN [kind |-> "raise", ops |-> ops, msg |-> StatError]
        ELSE [kind |-> "return", ops |-> ops,
              rec |-> [file_name    |-> Basename(file_path),
                       mime_type    |-> mime,
                       ai_category  |-> category,
                       file_type    |-> IF LStripDots(ext) = <<>> THEN UnknownType
                                        ELSE LStripDots(ext),
                       encoding     |-> encoding,
                       language     |-> language,
                       file_size    |-> FormatSize(TextLen(file.bytes)),
                       confidence   |-> FormatConfidence(confidence),
                       uploaded     |-> timestamp,
                       preview      |-> Truncate(preview),
                       flagged      |-> flagged,
                       flag_reasons |-> flag_reasons]]

Confidence(magika) ==
    IF magika.confidence = <<>> THEN DefaultConfidence ELSE magika.confidence[1]

(* Faulty variant: the except clause fills in the sentinels but does not return. *)
analyze_single_file_FallThrough(file_path, magika, file, now) ==
    IF magika.raises
    THEN AnalyzeClassified(file_path, "error", "Processing Failed", 0, file, now)
    ELSE AnalyzeClassified(file_path, ResolveMime(file_path, magika),
                           Or(magika.category, "Unknown"), Confidence(magika), file, now)

analyze_single_file(file_path, magika, file, now) ==
    LET timestamp == now
    IN  IF magika.raises
        THEN [kind |-> "return", ops |-> <<"identify_path">>,
              rec |-> ClassifierFailureRecord(file_path, magika.msg, timestamp)]
        ELSE AnalyzeClassified(file_path, ResolveMime(file_path, magika),
                               Or(magika.category, "Unknown"), Confidence(magika),
                               file, timestamp)

----------------------------------------------------------------------------
(* Inputs.                                                                 *)

PathATxt == <<"d", "/", "a", ".", "t", "x", "t">>

PathBTXT == <<"b", ".", "T", "X", "T">>

PathCPng == <<"d", ".", "v", "/", "c", ".", "p", "n", "g">>

PathNoExt == <<"d", ".", "v", "/", "e">>

PathPdf == <<"g", ".", "P", "d", "f">>

PathDotfile == <<"d", "/", ".", "t", "x", "t">>

Paths == {PathATxt, PathBTXT, PathCPng, PathNoExt, PathPdf, PathDotfile}

MagikaRaises ==
    [raises |-> TRUE, msg |-> MagikaError, mime_type |-> None, category |-> None,
     confidence |-> <<>>]

MagikaOutput(m, c, s) ==
    [raises |-> FALSE, msg |-> "", mime_type |-> m, category |-> c, confidence |-> s]

MagikaBlind == MagikaOutput(None, None, <<>>)

MagikaOutcomes ==
    {MagikaRaises, MagikaBlind,
     MagikaOutput("text/plain", "text", <<9750>>),
     MagikaOutput("application/pdf", "document", <<8805>>),
     MagikaOutput("image/png", "image", <<9999>>),
     MagikaOutput("image/jpeg", None, <<>>)}

File(perm, bytes, chardet) == [perm |-> perm, bytes |-> bytes, chardet |-> chardet]

FileEmpty == File("ok", <<>>, None)

FilePii ==
    File("ok", <<Run("ws", 2), Run("ssn_us", 11), Run("x", 1), Run("email", 7),
                 Run("ws", 3)>>, "ascii")

FileLong == File("ok", <<Run("x", 4998), Run("ws", 4), Run("x", 30000)>>, "utf-8")

FileBad ==
    File("ok", <<Run("bad", 3), Run("x", 5001), Run("person_name", 9)>>, "Windows-1252")

FileSpanish == File("ok", <<Run("ws", 3), Run("spanish_cc_label", 7), Run("x", 5)>>, None)

FileNoRead == File("noread", <<Run("ssn_us", 11), Run("x", 40)>>, None)

FileMissing == File("missing", <<>>, None)

Files == {FileEmpty, FilePii, FileLong, FileBad, FileSpanish, FileNoRead, FileMissing}

Clock == {"2025-11-01 10:00:00", "2025-11-01 10:00:01"}

(* The classifier reads the file's bytes: where they cannot be read it     *)
(* either raises or has no content type to report.                         *)
Consistent(magika, file) ==
    file.perm # "ok" => magika \in {MagikaRaises, MagikaBlind}

NoOutcome == [kind |-> "none"]

----------------------------------------------------------------------------
(* One path through the pipeline: a call of analyze_single_file on drawn   *)
(* inputs, and the orchestrator's handler for a call that raised.          *)

InitBatchIdle ==
    /\ file_paths = <<>>
    /\ pc = "idle"
    /\ futures = <<>>
    /\ yielded = <<>>
    /\ results = <<>>
    /\ broken = FALSE

InitSingle ==
    /\ a_pc = "ready"
    /\ a_args \in {a \in [file_path : Paths, magika : MagikaOutcomes, file : Files, now : Clock] :
                     Consistent(a.magika, a.file)}
    /\ a_out = NoOutcome
    /\ InitBatchIdle

AnalyzeOutcome == analyze_single_file(a_args.file_path, a_args.magika, a_args.file, a_args.now)

AnalyzeReturns ==
    /\ a_pc = "ready"
    /\ AnalyzeOutcome.kind = "return"
    /\ a_pc' = "returned"
    /\ a_out' = AnalyzeOutcome
    /\ UNCHANGED <<a_args, batch_vars>>

AnalyzeRaises ==
    /\ a_pc = "ready"
    /\ AnalyzeOutcome.kind = "raise"
    /\ a_pc' = "raised"
    /\ a_out' = AnalyzeOutcome
    /\ UNCHANGED <<a_args, batch_vars>>

WorkerFailure ==
    /\ a_pc = "raised"
    /\ \E now \in Clock :
         a_out' = [kind |-> "return", ops |-> a_out.ops,
                   rec |-> WorkerFailureRecord(a_args.file_path, a_out.msg, now)]
    /\ a_pc' = "recovered"
    /\ UNCHANGED <<a_args, batch_vars>>

NextSingle == AnalyzeReturns \/ AnalyzeRaises \/ WorkerFailure

SpecSingle == InitSingle /\ [][NextSingle]_vars

----------------------------------------------------------------------------
(* classify_files_batch.                                                   *)
(*  futures[i] is the future of the i-th submit: its path, its state       *)
(*  ("pending", "running", "finished") and, once finished, the outcome of  *)
(*  its analyze_single_file call or the exception the pool set on it.      *)
(*  yielded is the sequence of futures as_completed has produced, results  *)
(*  the list being built, broken whether a worker process died.            *)

BatchPaths == {PathATxt, PathCPng}

BatchMagika == {MagikaRaises, MagikaBlind, MagikaOutput("image/png", "image", <<9999>>)}

BatchFiles == {FileLong, FileMissing}

BatchNow == "2025-11-01 10:00:00"

SeqsUpTo(S, n) == UNION {[1..k -> S] : k \in 0..n}

Range(q) == {q[i] : i \in 1..Len(q)}

InitCallIdle ==
    /\ a_pc = "idle"
    /\ a_args = <<>>
    /\ a_out = NoOutcome

Init ==
    /\ file_paths \in SeqsUpTo(BatchPaths, MaxFiles)
    /\ pc = IF file_paths = <<>> THEN "collect" ELSE "submit"
    /\ futures = <<>>
    /\ yielded = <<>>
    /\ results = <<>>
    /\ broken = FALSE
    /\ InitCallIdle

Running == {i \in 1..Len(futures) : futures[i].state = "running"}

Pending == {i \in 1..Len(futures) : futures[i].state = "pending"}

Finished == {i \in 1..Len(futures) : futures[i].state = "finished"}

(* executor.submit(analyze_single_file, path), one path at a time; a       *)
(* broken pool refuses the submit and the exception leaves the function.   *)
Submit ==
    /\ pc = "submit"
    /\ ~broken
    /\ futures' = Append(futures,
                         [path |-> file_paths[Len(futures) + 1], state |-> "pending",
                          out |-> NoOutcome])
    /\ pc' = IF Len(futures') = Len(file_paths) THEN "collect" ELSE "submit"
    /\ UNCHANGED <<file_paths, yielded, results, broken, call_vars>>

SubmitRefused ==
    /\ pc = "submit"
    /\ broken
    /\ pc' = "raised"
    /\ UNCHANGED <<file_paths, futures, yielded, results, broken, call_vars>>

(* A free worker process takes the oldest pending work item.               *)
Start(i) ==
    /\ i \in Pending
    /\ \A j \in Pending : i <= j
    /\ Cardinality(Running) < MaxWorkers
    /\ ~broken
    /\ futures' = [futures EXCEPT ![i].state = "running"]
    /\ UNCHANGED <<file_paths, pc, yielded, results, broken, call_vars>>

(* What a call on each path can come to, over what the classifier and the  *)
(* filesystem may answer.                                                  *)
TaskOutcomes ==
    [path \in BatchPaths |->
        {analyze_single_file(path, w[1], w[2], BatchNow) :
            w \in {v \in BatchMagika \X BatchFiles : Consistent(v[1], v[2])}}]

(* The task's call returns or raises; the pool sets it on the future.      *)
Finish(i) ==
    /\ i \in Running
    /\ \E out \in TaskOutcomes[futures[i].path] :
         futures' = [futures EXCEPT ![i].state = "finished", ![i].out = out]
    /\ UNCHANGED <<file_paths, pc, yielded, results, broken, call_vars>>

(* The worker process running task i dies: the pool is broken, and every   *)
(* future not yet finished gets BrokenProcessPool.                         *)
Crash(i) ==
    /\ i \in Running
    /\ broken' = TRUE
    /\ futures' = [j \in 1..Len(futures) |->
                     IF futures[j].state = "finished" THEN futures[j]
                     ELSE [futures[j] EXCEPT
                             !.state = "finished",
                             !.out = [kind |-> "raise", ops |-> <<>>,
                                      msg |-> BrokenPoolError]]]
    /\ UNCHANGED <<file_paths, pc, yielded, results, call_vars>>

RecordFor(future, now) ==
    IF future.out.kind = "return" THEN future.out.rec
    ELSE WorkerFailureRecord(future.path, future.out.msg, now)

(* One turn of the loop over as_completed(future_to_path).                 *)
Collect(i) ==
    /\ pc = "collect"
    /\ i \in Finished \ Range(yielded)
    /\ yielded' = Append(yielded, i)
    /\ results' = Append(results, RecordFor(futures[i], BatchNow))
    /\ UNCHANGED <<file_paths, pc, futures, broken, call_vars>>

(* Faulty variant: the return sits inside the loop.                        *)
AllYielded_AfterFirst == futures = <<>> \/ yielded # <<>>

(* Faulty variant: the try wraps the whole loop, so the first exception ends it. *)
AllYielded_AbortOnError ==
    \/ \A i \in 1..Len(futures) : i \in Range(yielded)
    \/ \E k \in 1..Len(yielded) : futures[yielded[k]].out.kind = "raise"

AllYielded == \A i \in 1..Len(futures) : i \in Range(yielded)

(* as_completed is exhausted, the with block shuts the pool down, return.  *)
Return ==
    /\ pc = "collect"
    /\ AllYielded
    /\ pc' = "returned"
    /\ UNCHANGED <<file_paths, futures, yielded, results, broken, call_vars>>

Next ==
    \/ Submit
    \/ SubmitRefused
    \/ \E i \in 1..MaxFiles : Start(i)
    \/ \E i \in 1..MaxFiles : Finish(i)
    \/ \E i \in 1..MaxFiles : Crash(i)
    \/ \E i \in 1..MaxFiles : Collect(i)
    \/ Return

Spec == Init /\ [][Next]_vars

(* The steps that are not the death of a worker process.                   *)
Progress ==
    \/ Submit
    \/ SubmitRefused
    \/ \E i \in 1..MaxFiles : Start(i)
    \/ \E i \in 1..MaxFiles : Finish(i)
    \/ \E i \in 1..MaxFiles : Collect(i)
    \/ Return

(* The caller and the pool keep going, and every task a worker holds runs  *)
(* to its end (it returns or raises); a worker process need never die.     *)
FairSpec == Spec /\ WF_vars(Progress)

----------------------------------------------------------------------------
(* Properties.                                                             *)

StartsWith(s, prefix) == \E m \in ExceptionMessages : s = prefix \o " " \o m

TaskOf(k) == futures[yielded[k]]

(* C1: when classify_files_batch returns, results holds exactly            *)
(* len(file_paths) records, one for each submitted task (each task's       *)
(* future was yielded exactly once), and the record of a task carries the  *)
(* basename of that task's path as file_name.                              *)
C1_OneRecordPerTask ==
    pc = "returned" =>
        /\ Len(results) = Len(file_paths)
        /\ Len(yielded) = Len(file_paths)
        /\ Range(yielded) = 1..Len(file_paths)
        /\ \A k \in 1..Len(results) :
             results[k].file_name = Basename(file_paths[yielded[k]])

(* A returned batch of three tasks on a repeated path: one returned a      *)
(* record, one met a classifier failure, one raised.                       *)
C1_Witness ==
    /\ pc = "returned"
    /\ Len(file_paths) >= 3
    /\ \E i, j \in 1..Len(file_paths) : i # j /\ file_paths[i] = file_paths[j]
    /\ \E i, j, l \in 1..Len(futures) :
         /\ futures[i].out.kind = "raise"
         /\ futures[j].out.kind = "return" /\ futures[j].out.rec.mime_type = "error"
         /\ futures[l].out.kind = "return" /\ futures[l].out.rec.mime_type # "error"

(* C2 as stated: every record the pipeline returns has                     *)
(* flagged == (len(flag_reasons) > 0).                                     *)
C2_FlaggedIffReasons ==
    a_pc \in {"returned", "recovered"} =>
        (a_out.rec.flagged <=> Cardinality(a_out.rec.flag_reasons) > 0)

C3_Records ==
    /\ \A k \in 1..Len(results) :
         /\ TaskOf(k).out.kind = "raise" =>
              /\ results[k].file_name = Basename(file_paths[yielded[k]])
              /\ results[k].mime_type = "error"
              /\ results[k].flag_reasons # {}
              /\ \A r \in results[k].flag_reasons : StartsWith(r, "Worker error:")
         /\ TaskOf(k).out.kind = "return" => results[k] = TaskOf(k).out.rec
    /\ pc = "returned" => \A i \in 1..Len(futures) : i \in Range(yielded)
    /\ pc = "raised" => broken

C3_Stable ==
    /\ \A i \in 1..Len(futures) :
         futures[i].state = "finished" => futures'[i] = futures[i]
    /\ SubSeq(results', 1, Len(results)) = results

C4_ClassifierFailureShortCircuits ==
    (a_pc # "ready" /\ a_args.magika.raises) =>
        /\ a_pc = "returned"
        /\ a_out.ops = <<"identify_path">>
        /\ a_out.rec.mime_type = "error"
        /\ a_out.rec.ai_category = "Processing Failed"
        /\ a_out.rec.confidence = "0%"

(* The classifier raised on a readable .txt file holding PII.              *)
C4_Witness ==
    /\ a_pc = "returned"
    /\ a_args.magika.raises
    /\ a_args.file = FilePii
    /\ a_args.file_path = PathATxt

RecordKeys ==
    {"file_name", "mime_type", "ai_category", "file_type", "encoding", "language",
     "file_size", "confidence", "uploaded", "preview", "flagged", "flag_reasons"}

(* C5 as stated: every record the pipeline returns has exactly the twelve  *)
(* fields of a successful record.                                          *)
C5_SameKeys ==
    a_pc \in {"returned", "recovered"} => DOMAIN a_out.rec = RecordKeys

ImageMimes == {"image/png", "image/jpeg"}

ImageSkipped ==
    /\ a_out.rec.flagged = FALSE
    /\ a_out.rec.preview = SkippedText
    /\ a_out.rec.encoding = "N/A"

(* C6 as stated: a file classified as an image, whatever its extension,    *)
(* is not flagged, has the skip sentinel as preview and encoding "N/A".    *)
C6_ImageSkippedAnyExtension ==
    (a_pc = "returned" /\ a_out.rec.mime_type \in ImageMimes) => ImageSkipped

(* C6 amended: a file classified as an image whose lowercased extension    *)
(* is neither .txt nor .pdf is not flagged, has the skip sentinel as       *)
(* preview and encoding "N/A".                                             *)
C6_ImageSkippedUnlessTextExtension ==
    (/\ a_pc = "returned"
     /\ a_out.rec.mime_type \in ImageMimes
     /\ Lower(SplitExt(a_args.file_path)) \notin {DotTxt, DotPdf}) => ImageSkipped

(* A readable file holding PII, classified image/png, named without a      *)
(* text extension.                                                         *)
C6_Witness ==
    /\ a_pc = "returned"
    /\ a_args.magika.mime_type = "image/png"
    /\ a_args.file = FilePii
    /\ a_args.file_path = PathNoExt
    /\ a_out.rec.preview = SkippedText

Unreadable == a_args.file.perm = "noread"

(* C7 as stated: the analysis of a path whose bytes cannot be read ends    *)
(* in a record with the unreadable-data sentinel as preview and encoding   *)
(* "Unknown", and raises nothing.                                          *)
C7_UnreadableYieldsSentinel ==
    (a_pc # "ready" /\ Unreadable) =>
        /\ a_pc = "returned"
        /\ a_out.rec.preview = UnreadableText
        /\ a_out.rec.encoding = "Unknown"

(* C7 amended: the analysis of a path whose bytes cannot be read (its      *)
(* size can) raises nothing, and ends in the classifier-failure record if  *)
(* the classifier raised on the path, else, if the MIME or the extension   *)
(* makes it text or PDF, in an unflagged record with the unreadable-data   *)
(* sentinel as preview and encoding "Unknown", else in the skipped record. *)
C7_UnreadableByCase ==
    (a_pc # "ready" /\ Unreadable) =>
        /\ a_pc = "returned"
        /\ IF a_args.magika.raises
           THEN a_out.rec.preview = ErrorText /\ a_out.rec.encoding = "N/A"
           ELSE IF \/ a_out.rec.mime_type \in {"text/plain", "application/pdf"}
                   \/ Lower(SplitExt(a_args.file_path)) \in {DotTxt, DotPdf}
           THEN /\ a_out.rec.preview = UnreadableText
                /\ a_out.rec.encoding = "Unknown"
                /\ a_out.rec.flagged = FALSE
           ELSE a_out.rec.preview = SkippedText /\ a_out.rec.encoding = "N/A"

(* An unreadable .TXT file on which the classifier did not raise.          *)
C7_Witness ==
    /\ a_pc = "returned"
    /\ Unreadable
    /\ a_args.file_path = PathBTXT
    /\ ~a_args.magika.raises
    /\ a_out.rec.preview = UnreadableText

AllCollected ==
    \A i \in 1..Len(file_paths) :
        \E k \in 1..Len(results) : k <= Len(yielded) /\ yielded[k] = i

(* C8: classify_files_batch has returned only when every submitted task    *)
(* has its record in results; and, when every task the pool holds runs to  *)
(* its end and no worker process dies, the call eventually returns.        *)
C8_BlocksUntilAll == [](pc = "returned" => AllCollected) /\ <>(pc = "returned" \/ broken)

(* A returned batch of at least two tasks with no worker death.            *)
C8_Witness ==
    /\ pc = "returned"
    /\ ~broken
    /\ Len(file_paths) >= 2
    /\ AllCollected

Scans == {"safe_read", "detect_language", "find_pii"}

C9_Eligible ==
    \/ ResolveMime(a_args.file_path, a_args.magika) = "text/plain"
    \/ ResolveMime(a_args.file_path, a_args.magika) = "application/pdf"
    \/ Lower(SplitExt(a_args.file_path)) = DotTxt
    \/ Lower(SplitExt(a_args.file_path)) = DotPdf

(* C9: after a successful classification the bounded read, the language    *)
(* detection and the PII scan all run if the MIME is text/plain or         *)
(* application/pdf or the lowercased extension is .txt or .pdf, and none   *)
(* runs otherwise; otherwise the record has the skip sentinel as preview,  *)
(* encoding and language "N/A", flagged false and no flag_reasons.         *)
C9_ScanIffEligible ==
    (a_pc \in {"returned", "raised"} /\ ~a_args.magika.raises) =>
        /\ C9_Eligible => Scans \subseteq Range(a_out.ops)
        /\ ~C9_Eligible => Scans \cap Range(a_out.ops) = {}
        /\ (~C9_Eligible /\ a_pc = "returned") =>
             /\ a_out.rec.preview = SkippedText
             /\ a_out.rec.encoding = "N/A"
             /\ a_out.rec.language = "N/A"
             /\ a_out.rec.flagged = FALSE
             /\ a_out.rec.flag_reasons = {}

(* A readable .txt file holding PII and classified image/png was scanned.  *)
C9_Witness ==
    /\ a_pc = "returned"
    /\ a_args.file_path = PathATxt
    /\ a_args.magika.mime_type = "image/png"
    /\ a_args.file = FilePii
    /\ a_out.rec.flagged
    /\ Scans \subseteq Range(a_out.ops)

(* C10: every record the pipeline returns (success, skipped, unreadable,   *)
(* classifier failure, worker failure) has a preview of at most 5000       *)
(* characters.                                                             *)
C10_PreviewBounded ==
    a_pc \in {"returned", "recovered"} => TextLen(a_out.rec.preview) <= 5000

(* A readable text file whose decoded prefix is longer than 5000: the      *)
(* preview is 5000 characters.                                             *)
C10_Witness ==
    /\ a_pc = "returned"
    /\ a_args.file = FileBad
    /\ a_args.file_path = PathATxt
    /\ TextLen(safe_read(a_args.file, MaxBytes).text) > 5000
    /\ TextLen(a_out.rec.preview) = 5000

====
